---- MODULE Spec2Model ----
(***************************************************************************)
(* The numerical engine of app.py: get_bifurcation_data (the bifurcation   *)
(* sweep of the logistic map), simulate_time_series (one noisy clamped     *)
(* trajectory) and the early-warning metrics main() derives from it.       *)
(*                                                                         *)
(* float64 values are fixed-point integers.  The generator counts in units *)
(* of its seed 1e-5 (GenOne units make 1.0), the simulator in units of its *)
(* noise floor 1e-4 (SimOne units make 1.0).  Every product or quotient is *)
(* rounded to the nearest unit, as float64 rounds to the nearest float.    *)
(***************************************************************************)
EXTENDS Integers, Sequences, FiniteSets

VARIABLES bif,        \* frame of get_bifurcation_data: arguments and locals
          df_bif,     \* main(): the DataFrame get_bifurcation_data returned
          sim,        \* frame of simulate_time_series: arguments and locals
          ts_data,    \* main(): the array simulate_time_series returned
          autocorr,   \* main(): lag-1 autocorrelation after the NaN fix
          variance,   \* main(): variance after the NaN fix
          prev_run    \* the previous script run: its arguments, draws, result

vars == <<bif, df_bif, sim, ts_data, autocorr, variance, prev_run>>

-----------------------------------------------------------------------------
(* Bounds of the model *)

MaxSteps == 3        \* steps of a sweep: 1..MaxSteps
MaxIterations == 3   \* iterations: 1..MaxIterations
MaxLast == 3         \* last: 1..MaxLast
MaxSimSteps == 3     \* steps of a trajectory: 1..MaxSimSteps

-----------------------------------------------------------------------------
(* Arithmetic *)

GenOne == 100000   \* 1.0 in generator units (the 1 of "1 - x", unit = 1e-5)
Seed == 1          \* 1e-5 in generator units
SimOne == 10000    \* 1.0 in simulator units (the 1 of "1 - x[t-1]", unit = 1e-4)
NoiseFloor == 1    \* 0.0001 in simulator units

Min(a, b) == IF a <= b THEN a ELSE b
Max(a, b) == IF a >= b THEN a ELSE b

\* a / d rounded to the nearest integer (d > 0)
RoundDiv(a, d) == (a + (d \div 2)) \div d

\* a * b in generator units, rounded to the nearest unit.  b is split as
\* bh * 250 + bl (250 * 400 = GenOne) so that no intermediate product leaves
\* the 32-bit integers; the result equals (a * b + GenOne / 2) \div GenOne.
GMul(a, b) ==
    LET bh == b \div 250
        bl == b % 250
    IN  (a * bh + ((a * bl + (GenOne \div 2)) \div 250)) \div 400

\* a * b in simulator units, rounded to the nearest unit
SMul(a, b) == RoundDiv(a * b, SimOne)

-----------------------------------------------------------------------------
(* get_bifurcation_data *)

\* np.linspace(start, stop, num), endpoint included: num values
\* start + j * (stop - start) / (num - 1), the last one set to stop itself;
\* num = 1 gives [start].
LinspaceOpen(start, stop, num) ==
    [j \in 1..num |-> start + RoundDiv((j - 1) * (stop - start), num)]

Linspace(start, stop, num) ==
    [j \in 1..num |->
        IF num > 1 /\ j = num THEN stop
        ELSE IF num = 1 THEN start
        ELSE start + RoundDiv((j - 1) * (stop - start), num - 1)]

\* one scalar update r * x * (1 - x), evaluated left to right
Logistic(r, x) == GMul(GMul(r, x), GenOne - x)

\* x = r_values * x * (1 - x): the elementwise update of the whole vector
LogisticVecCoupled(r_values, x) ==
    [j \in 1..Len(x) |-> Logistic(r_values[j], x[1])]

LogisticVec(r_values, x) ==
    [j \in 1..Len(x) |-> Logistic(r_values[j], x[j])]

\* pd.DataFrame({'r': r_values, 'x': x}): one row <<r, x>> per parameter
DataFrameSwapped(r_values, x) == [j \in 1..Len(r_values) |-> <<x[j], r_values[j]>>]

DataFrame(r_values, x) == [j \in 1..Len(r_values) |-> <<r_values[j], x[j]>>]

\* the test that decides whether iteration i is recorded
KeepStrict(i, iterations, last) == i > iterations - last

KeepClamped(i, iterations, last) == iterations >= last /\ i >= iterations - last

Keep(i, iterations, last) == i >= iterations - last

\* the body of "for i in range(iterations)" as a function of the frame
LoopBodyRecordFirst(b) ==
    [b EXCEPT !.x = LogisticVec(b.r_values, b.x),
              !.results = IF Keep(b.i, b.iterations, b.last)
                          THEN Append(b.results, DataFrame(b.r_values, b.x))
                          ELSE b.results,
              !.i = b.i + 1]

LoopBody(b) ==
    LET x == LogisticVec(b.r_values, b.x)
    IN  [b EXCEPT !.x = x,
                  !.results = IF Keep(b.i, b.iterations, b.last)
                              THEN Append(b.results, DataFrame(b.r_values, x))
                              ELSE b.results,
                  !.i = b.i + 1]

\* pd.concat(results): the rows of the frames, frame after frame
RECURSIVE Concat(_)
Concat(frames) ==
    IF frames = <<>> THEN <<>>
    ELSE Head(frames) \o Concat(Tail(frames))

\* the (min_r, max_r) pairs of the model: the range main() sweeps, a narrower
\* one whose spacing does not divide evenly, and two neighbouring values
RRanges == { <<250000, 400000>>, <<300000, 400000>>, <<300000, 300001>> }

BifIdle ==
    [pc |-> "idle", min_r |-> 0, max_r |-> 0, steps |-> 0, iterations |-> 0,
     last |-> 0, r_values |-> <<>>, x |-> <<>>, results |-> <<>>, i |-> 0]

\* the call: lines 61-63
BifCall ==
    /\ bif.pc = "idle"
    /\ \E rr \in RRanges, steps \in 1..MaxSteps,
          iterations \in 1..MaxIterations, last \in 1..MaxLast :
          bif' = [pc |-> "loop", min_r |-> rr[1], max_r |-> rr[2],
                  steps |-> steps, iterations |-> iterations, last |-> last,
                  r_values |-> Linspace(rr[1], rr[2], steps),
                  x |-> [j \in 1..steps |-> Seed],
                  results |-> <<>>, i |-> 0]
    /\ UNCHANGED <<df_bif, sim, ts_data, autocorr, variance, prev_run>>

\* one pass of the loop: lines 66-69
BifIterate ==
    /\ bif.pc = "loop"
    /\ bif.i < bif.iterations
    /\ bif' = LoopBody(bif)
    /\ UNCHANGED <<df_bif, sim, ts_data, autocorr, variance, prev_run>>

\* the loop is exhausted: line 71
BifReturn ==
    /\ bif.pc = "loop"
    /\ bif.i = bif.iterations
    /\ df_bif' = Concat(bif.results)
    /\ bif' = [bif EXCEPT !.pc = "done"]
    /\ UNCHANGED <<sim, ts_data, autocorr, variance, prev_run>>

-----------------------------------------------------------------------------
(* simulate_time_series *)

\* np.clip(v, lo, hi)
ClipUpperOnly(v, lo, hi) == IF v > hi THEN hi ELSE v

Clip(v, lo, hi) == IF v < lo THEN lo ELSE IF v > hi THEN hi ELSE v

\* np.random.normal(loc, scale): loc + scale * z, z the standard normal
\* deviate the generator yields next
Normal(loc, scale, z) == loc + scale * z

\* x[0]: 0.5 on every call
X0Carried == IF prev_run = <<>> THEN 5000 ELSE prev_run[1].x[Len(prev_run[1].x)]

X0 == 5000

\* the body of "for t in range(1, steps)" as a function of the frame and of
\* the deviate drawn; Python's x[t] is s.x[t + 1]
SimBody(s, z) ==
    LET prev == s.x[s.t]
        update == SMul(SMul(s.r, prev), SimOne - prev)
        noise == Normal(0, Max(NoiseFloor, s.noise_level), z)
    IN  [s EXCEPT !.x[s.t + 1] = Clip(update + noise, 0, SimOne),
                  !.t = s.t + 1,
                  !.draws = Append(s.draws, z)]

\* the growth rates of the model: one below the map's domain, the one that
\* holds 0.5 fixed, the edge of chaos, one above the domain
RFocus == { -10000, 20000, 40000, 50000 }

\* noise levels: the floor applies to the first, not to the second
NoiseLevels == { 0, 500 }

\* the standard normal deviates a draw can yield
ZDraws == { -3, 0, 3 }

SimIdle ==
    [pc |-> "idle", r |-> 0, noise_level |-> 0, steps |-> 0,
     x |-> <<>>, t |-> 0, draws |-> <<>>]

\* the call: lines 74-75
SimCall ==
    /\ sim.pc = "idle"
    /\ \E r \in RFocus, noise_level \in NoiseLevels, steps \in 1..MaxSimSteps :
          sim' = [pc |-> "loop", r |-> r, noise_level |-> noise_level,
                  steps |-> steps,
                  x |-> [j \in 1..steps |-> IF j = 1 THEN X0 ELSE 0],
                  t |-> 1, draws |-> <<>>]
    /\ UNCHANGED <<bif, df_bif, ts_data, autocorr, variance, prev_run>>

\* one pass of the loop: lines 76-80
SimStep ==
    /\ sim.pc = "loop"
    /\ sim.t < sim.steps
    /\ \E z \in ZDraws : sim' = SimBody(sim, z)
    /\ UNCHANGED <<bif, df_bif, ts_data, autocorr, variance, prev_run>>

\* the loop is exhausted: line 81, and line 144 of main()
SimReturn ==
    /\ sim.pc = "loop"
    /\ sim.t >= sim.steps
    /\ ts_data' = sim.x
    /\ sim' = [sim EXCEPT !.pc = "returned"]
    /\ UNCHANGED <<bif, df_bif, autocorr, variance, prev_run>>

-----------------------------------------------------------------------------
(* The metrics of main() *)

\* a float64 result: a number of simulator units, or NaN
Float(v) == [nan |-> FALSE, val |-> v]

NaN == [nan |-> TRUE, val |-> 0]

NoFloat == Float(0)

RECURSIVE Sum(_)
Sum(s) == IF s = <<>> THEN 0 ELSE Head(s) + Sum(Tail(s))

\* Len(s) times the deviations of s from its mean
Dev(s) == [k \in DOMAIN s |-> Len(s) * s[k] - Sum(s)]

SumProd(a, b) == Sum([k \in DOMAIN a |-> a[k] * b[k]])

\* the integer square root of n (0 <= n < 2^31), by bisection
RECURSIVE ISqrtIn(_, _, _)
ISqrtIn(n, lo, hi) ==
    IF lo >= hi THEN lo
    ELSE LET mid == (lo + hi + 1) \div 2
         IN  IF mid * mid <= n THEN ISqrtIn(n, mid, hi)
             ELSE ISqrtIn(n, lo, mid - 1)

ISqrt(n) == ISqrtIn(n, 0, 46340)

\* Series.var(), ddof = 1: NaN below two values, else the sum of squared
\* deviations over n - 1
SeriesVar(s) ==
    LET n == Len(s)
        d == Dev(s)
    IN  IF n < 2 THEN NaN
        ELSE Float(RoundDiv(SumProd(d, d), n * n * (n - 1) * SimOne))

\* np.corrcoef(a, b)[0, 1]: the covariance over the two standard deviations,
\* clipped to [-1, 1]; 0/0 = NaN with a single pair or a constant series
Corrcoef(a, b) ==
    LET da == Dev(a)
        db == Dev(b)
        saa == SumProd(da, da)
        sbb == SumProd(db, db)
        sab == SumProd(da, db)
    IN  IF Len(a) < 2 \/ saa = 0 \/ sbb = 0 THEN NaN
        ELSE Float(Clip(RoundDiv(RoundDiv(sab, ISqrt(saa)) * SimOne, ISqrt(sbb)),
                        -SimOne, SimOne))

\* Series.autocorr(lag=1): the correlation of x[1..n-1] with x[0..n-2], the
\* pairs that are left once the shifted series' NaN is dropped
SeriesAutocorr(s) ==
    LET n == Len(s)
    IN  IF n < 2 THEN NaN
        ELSE Corrcoef(SubSeq(s, 2, n), SubSeq(s, 1, n - 1))

\* if pd.isna(autocorr): autocorr = 0.0
KeepNaN(v) == v

FixAutocorr(v) == IF v.nan THEN Float(0) ELSE v

\* if pd.isna(variance): variance = 0.0
PassNaN(v) == v

FixVariance(v) == IF v.nan THEN Float(0) ELSE v

\* lines 145-155
Metrics ==
    /\ sim.pc = "returned"
    /\ autocorr' = FixAutocorr(SeriesAutocorr(ts_data))
    /\ variance' = FixVariance(SeriesVar(ts_data))
    /\ sim' = [sim EXCEPT !.pc = "metrics"]
    /\ UNCHANGED <<bif, df_bif, ts_data, prev_run>>

\* the script runs again (a widget changed): main() starts afresh
Rerun ==
    /\ sim.pc = "metrics"
    /\ prev_run' = << [r |-> sim.r, noise_level |-> sim.noise_level,
                       steps |-> sim.steps, draws |-> sim.draws,
                       x |-> ts_data] >>
    /\ sim' = SimIdle
    /\ ts_data' = <<>>
    /\ autocorr' = NoFloat
    /\ variance' = NoFloat
    /\ UNCHANGED <<bif, df_bif>>

-----------------------------------------------------------------------------
(* Specifications *)

Init ==
    /\ bif = BifIdle
    /\ df_bif = <<>>
    /\ sim = SimIdle
    /\ ts_data = <<>>
    /\ autocorr = NoFloat
    /\ variance = NoFloat
    /\ prev_run = <<>>

Next == BifCall \/ BifIterate \/ BifReturn

\* the bifurcation generator
Spec == Init /\ [][Next]_vars

NextSim == SimCall \/ SimStep \/ SimReturn \/ Metrics \/ Rerun

\* the trajectory simulator and its metrics
SpecSim == Init /\ [][NextSim]_vars

-----------------------------------------------------------------------------
(* Properties of get_bifurcation_data *)

Range(s) == { s[k] : k \in DOMAIN s }

Abs(a) == IF a < 0 THEN -a ELSE a

\* the call is valid: min_r < max_r, steps >= 1, iterations >= last >= 1
ValidCall ==
    /\ bif.min_r < bif.max_r
    /\ bif.steps >= 1
    /\ bif.last >= 1
    /\ bif.iterations >= bif.last

Returned == bif.pc = "done"

StrictlyIncreasing(s) == \A a, b \in DOMAIN s : a < b => s[a] < s[b]

NonDecreasing(s) == \A a, b \in DOMAIN s : a < b => s[a] <= s[b]

\* C1: a valid call returns exactly steps * last samples.
C1_SampleCount ==
    (Returned /\ ValidCall) => Len(df_bif) = bif.steps * bif.last

C1_Witness ==
    /\ Returned /\ ValidCall
    /\ bif.steps >= 2 /\ bif.last >= 2 /\ bif.last < bif.iterations
    /\ Len(df_bif) = bif.steps * bif.last

\* r is the j-th (j = 0..steps-1) of the steps evenly spaced values of
\* [min_r, max_r], to within the half unit of rounding
OnSweep(r, j) ==
    IF bif.steps = 1 THEN r = bif.min_r
    ELSE 2 * Abs((r - bif.min_r) * (bif.steps - 1) - j * (bif.max_r - bif.min_r))
            <= bif.steps - 1

\* C2: for a valid call every returned r lies within [min_r, max_r] and is
\* one of the steps evenly spaced sweep values.
C2_RColumn ==
    (Returned /\ ValidCall) =>
        \A k \in 1..Len(df_bif) :
            LET r == df_bif[k][1]
            IN  /\ bif.min_r <= r /\ r <= bif.max_r
                /\ \E j \in 0..(bif.steps - 1) : OnSweep(r, j)

C2_Witness ==
    /\ Returned /\ ValidCall
    /\ bif.steps >= 3 /\ bif.iterations >= 2
    /\ \E k \in 1..Len(df_bif) :
          /\ bif.min_r < df_bif[k][1] /\ df_bif[k][1] < bif.max_r
          /\ OnSweep(df_bif[k][1], 1)

\* C7 as stated: for steps >= 1 and min_r < max_r the sweep is strictly
\* increasing, has length steps, starts at min_r and ends at max_r.
C7_SweepAsStated ==
    (bif.pc # "idle" /\ bif.steps >= 1 /\ bif.min_r < bif.max_r) =>
        /\ StrictlyIncreasing(bif.r_values)
        /\ Len(bif.r_values) = bif.steps
        /\ bif.r_values[1] = bif.min_r
        /\ bif.r_values[Len(bif.r_values)] = bif.max_r

\* C7 amended: for steps >= 1 and min_r < max_r the sweep has length steps,
\* starts at min_r and never decreases; with steps >= 2 it ends at max_r and,
\* when its spacing (max_r - min_r) / (steps - 1) is at least one unit of
\* resolution, it is strictly increasing; with steps = 1 it is [min_r].
C7_Sweep ==
    (bif.pc # "idle" /\ bif.steps >= 1 /\ bif.min_r < bif.max_r) =>
        /\ Len(bif.r_values) = bif.steps
        /\ bif.r_values[1] = bif.min_r
        /\ NonDecreasing(bif.r_values)
        /\ bif.steps = 1 => bif.r_values = <<bif.min_r>>
        /\ bif.steps >= 2 => bif.r_values[bif.steps] = bif.max_r
        /\ (bif.steps >= 2 /\ bif.max_r - bif.min_r >= bif.steps - 1)
              => StrictlyIncreasing(bif.r_values)

C7_Witness ==
    /\ bif.pc # "idle" /\ bif.steps >= 3 /\ bif.min_r < bif.max_r
    /\ StrictlyIncreasing(bif.r_values)
    /\ bif.r_values[1] = bif.min_r
    /\ bif.r_values[bif.steps] = bif.max_r

\* the k-th update (k = i + 1) of the loop, as the claim describes it
C8_Update ==
    (bif.pc = "loop" /\ bif'.pc = "loop" /\ bif' # bif) =>
        LET k == bif.i + 1
            group == [j \in 1..bif.steps |-> <<bif.r_values[j], bif'.x[j]>>]
        IN  /\ bif'.i = k
            /\ k <= bif.iterations
            /\ DOMAIN bif'.x = 1..bif.steps
            /\ \A j \in 1..bif.steps :
                  bif'.x[j] = Logistic(bif.r_values[j], bif.x[j])
            /\ bif'.results = IF k > bif.iterations - bif.last
                              THEN Append(bif.results, group)
                              ELSE bif.results

C8_State ==
    /\ (bif.pc = "loop" /\ bif.i = 0) =>
          /\ bif.results = <<>>
          /\ \A j \in 1..bif.steps : bif.x[j] = Seed
    /\ Returned =>
          /\ bif.i = bif.iterations
          /\ Len(bif.results) = Min(bif.last, bif.iterations)
          /\ df_bif = Concat(bif.results)

\* C8: the update runs exactly iterations times from the seed; the k-th
\* update appends one group iff k > iterations - last; the group holds the
\* post-update states of all parameters in sweep order; groups are appended
\* in iteration order and nothing else is ever in the result.
C8_Recording == [](C8_State) /\ [][C8_Update]_vars

C8_Witness ==
    /\ Returned /\ ValidCall
    /\ bif.steps >= 2 /\ bif.last >= 2 /\ bif.last < bif.iterations
    /\ Len(bif.results) = bif.last
    /\ bif.results[1] # bif.results[2]

\* the states a parameter run alone takes: n updates of r starting after x
RECURSIVE Alone(_, _, _)
Alone(r, x, n) ==
    IF n = 0 THEN <<>>
    ELSE LET y == Logistic(r, x) IN <<y>> \o Alone(r, y, n - 1)

\* the samples of the per-parameter loop: each sweep value run alone from
\* the seed for iterations updates, its last `last` states kept
PerParameterSamples ==
    UNION { { <<bif.r_values[j], s>> :
                s \in Range(SubSeq(Alone(bif.r_values[j], Seed, bif.iterations),
                                   bif.iterations - bif.last + 1,
                                   bif.iterations)) } :
            j \in 1..bif.steps }

\* C9: for a valid call the lockstep run returns exactly the samples of the
\* per-parameter loop.
C9_Lockstep ==
    (Returned /\ ValidCall) => Range(df_bif) = PerParameterSamples

C9_Witness ==
    /\ Returned /\ ValidCall
    /\ bif.steps >= 2 /\ bif.iterations >= 3 /\ bif.last >= 2
    /\ bif.x[1] # bif.x[2]
    /\ Range(df_bif) = PerParameterSamples

\* C10: every call with steps, iterations, last >= 1 returns, and returns
\* steps * min(last, iterations) samples, also when iterations < last.
C10_ShortRun ==
    /\ Returned => Len(df_bif) = bif.steps * Min(bif.last, bif.iterations)
    /\ (bif.pc = "loop" /\ bif.i = bif.iterations) => ENABLED BifReturn

C10_Witness ==
    /\ Returned
    /\ bif.iterations < bif.last /\ bif.steps >= 2
    /\ Len(df_bif) = bif.steps * bif.iterations

-----------------------------------------------------------------------------
(* Properties of simulate_time_series and of the metrics *)

SimReturned == sim.pc \in {"returned", "metrics"}

MetricsDone == sim.pc = "metrics"

AllEqual(s) == \A a, b \in DOMAIN s : s[a] = s[b]

\* C3: every element of the trajectory, x[0] = 0.5 included, lies in [0, 1],
\* while it is built and when it is returned.
C3_InUnitInterval ==
    /\ \A k \in DOMAIN sim.x : 0 <= sim.x[k] /\ sim.x[k] <= SimOne
    /\ SimReturned =>
          /\ Len(ts_data) = sim.steps
          /\ 2 * ts_data[1] = SimOne
          /\ \A k \in DOMAIN ts_data : 0 <= ts_data[k] /\ ts_data[k] <= SimOne

C3_Witness ==
    /\ SimReturned
    /\ \E k \in DOMAIN ts_data : ts_data[k] = 0
    /\ \E k \in DOMAIN ts_data : ts_data[k] = SimOne

\* C4: the metrics of a trajectory whose values are all equal are exactly
\* (0.0, 0.0), neither of them NaN.
C4_ConstantTrajectory ==
    (MetricsDone /\ AllEqual(ts_data)) =>
        /\ autocorr = Float(0)
        /\ variance = Float(0)

C4_Witness ==
    /\ MetricsDone /\ AllEqual(ts_data) /\ Len(ts_data) >= 3
    /\ SeriesAutocorr(ts_data).nan
    /\ autocorr = Float(0) /\ variance = Float(0)

\* C5: the metrics of a trajectory of length < 2 are (0.0, 0.0).
C5_ShortTrajectory ==
    (MetricsDone /\ Len(ts_data) < 2) =>
        /\ ~autocorr.nan /\ autocorr.val = 0
        /\ ~variance.nan /\ variance.val = 0

C5_Witness ==
    /\ MetricsDone /\ Len(ts_data) = 1
    /\ SeriesVar(ts_data).nan
    /\ variance = Float(0) /\ autocorr = Float(0)

\* this run and the previous one had the same arguments and the same draws
SameRun ==
    /\ prev_run # <<>>
    /\ SimReturned
    /\ prev_run[1].r = sim.r
    /\ prev_run[1].noise_level = sim.noise_level
    /\ prev_run[1].steps = sim.steps
    /\ prev_run[1].draws = sim.draws

\* C6: two runs with the same (r, noise_level, steps) that consumed the same
\* draws returned the same trajectory, element for element.
C6_Deterministic == SameRun => prev_run[1].x = ts_data

C6_Witness ==
    /\ SameRun
    /\ sim.steps >= 3
    /\ \E k \in DOMAIN sim.draws : sim.draws[k] # 0
    /\ ts_data[Len(ts_data)] # ts_data[1]
    /\ prev_run[1].x = ts_data

====
